---------------------------- MODULE Spec2Model ----------------------------
(***************************************************************************)
(* quadsphere: the cube-derived sphere tessellation of pvQt/Panini, with   *)
(* its seven texture-coordinate sets, its quad and line index arrays and   *)
(* the wrap-seam repair (src/src/quadsphere.cpp, src/src/quadsphere.h).    *)
(*                                                                         *)
(* Numbers.  A C double is a fixed-point integer with Scale units to 1.0.  *)
(* A C float is a double rounded to a multiple of FloatUlp (the cast       *)
(* float(x) loses precision).  A vertex component is stored as a pair      *)
(* <<sign, magnitude>> so that +0.0 and -0.0 stay distinct, as atan2       *)
(* tells them apart.  Texture coordinates are stored as plain integers.    *)
(***************************************************************************)
EXTENDS Integers, Sequences, FiniteSets, TLC

\* ------------------------------------------------------------------------
\* Bounds of the model
\* ------------------------------------------------------------------------

\* constructor arguments range over -MaxNeg .. MaxArg
MaxNeg == 2
MaxArg == 4

\* ------------------------------------------------------------------------
\* Fixed-point arithmetic standing for the C doubles and <cmath>
\* ------------------------------------------------------------------------

Scale == 10 ^ 4
FloatUlp == 2 * 5

Abs(a) == IF a < 0 THEN 0 - a ELSE a
Sgn(a) == IF a < 0 THEN 0 - 1 ELSE IF a > 0 THEN 1 ELSE 0

\* a / b rounded to the nearest integer, ties away from zero (b # 0)
RDivPos(a, b) ==
    IF a >= 0 THEN (2 * a + b) \div (2 * b)
              ELSE 0 - ((b - 2 * a) \div (2 * b))
RDiv(a, b) == IF b < 0 THEN RDivPos(0 - a, 0 - b) ELSE RDivPos(a, b)

\* product and quotient of two doubles
MulR(a, b) == RDiv(a * b, Scale)
DivR(a, b) == RDiv(a * Scale, b)

\* #define Pi : HalfPi is Pi / 2, so that Pi / 2 is exact as it is in binary
HalfPi == 15708
Pi == 2 * HalfPi
\* DEG2RAD of an angle given in half degrees: DEG2RAD(0.5 * h)
DEG2RAD(h) == RDiv(h * Pi, 360)

\* sqrt of a double in [0, 2]: the integer square root of v * Scale
RECURSIVE SqrtIter(_, _, _)
SqrtIter(n, lo, hi) ==
    IF hi - lo <= 1
    THEN IF n - lo * lo <= hi * hi - n THEN lo ELSE hi
    ELSE LET mid == (lo + hi) \div 2
         IN  IF mid * mid <= n THEN SqrtIter(n, mid, hi)
                               ELSE SqrtIter(n, lo, mid)
Sqrt(v) == IF v <= 0 THEN 0 ELSE SqrtIter(v * Scale, 0, 2 * Scale)

\* sin on [0, Pi/2] by its Taylor series: t is the term of degree k,
\* x2 the square of the argument, sum the terms below degree k
RECURSIVE SinTerms(_, _, _, _)
SinTerms(x2, t, k, sum) ==
    IF k >= 11 THEN sum + t
    ELSE SinTerms(x2, 0 - RDiv(MulR(t, x2), (k + 1) * (k + 2)), k + 2, sum + t)
AtMostOne(s) == IF s > Scale THEN Scale ELSE s
SinQ(x) == AtMostOne(SinTerms(MulR(x, x), x, 1, 0))

\* sin and cos on [-Pi, Pi]
Sin(x) == Sgn(x) * SinQ(IF Abs(x) <= HalfPi THEN Abs(x) ELSE Pi - Abs(x))
Cos(x) == (IF Abs(x) <= HalfPi THEN 1 ELSE 0 - 1) * SinQ(Abs(HalfPi - Abs(x)))
Tan(x) == DivR(Sin(x), Cos(x))

\* asin on [0, 1]: the angle in [0, Pi/2] whose sine is nearest v
RECURSIVE ASinIter(_, _, _)
ASinIter(v, lo, hi) ==
    IF hi - lo <= 1
    THEN IF v - SinQ(lo) <= SinQ(hi) - v THEN lo ELSE hi
    ELSE LET mid == (lo + hi) \div 2
         IN  IF SinQ(mid) <= v THEN ASinIter(v, mid, hi)
                               ELSE ASinIter(v, lo, mid)
ASin(v) ==
    IF v >= Scale THEN HalfPi
    ELSE IF v <= 0 THEN 0
    ELSE ASinIter(v, 0, HalfPi)

\* acos on [-1, 1], result in [0, Pi]
ACos(v) == HalfPi - Sgn(v) * ASin(Abs(v))

\* log of a positive double: halve or double into [3/4, 3/2], then
\* ln(x) = 2 atanh((x - 1) / (x + 1))
\* atanh by its series: p is u to the power k, u2 the square of u
RECURSIVE ATanhTerms(_, _, _, _)
ATanhTerms(u2, p, k, sum) ==
    IF k >= 7 THEN sum + RDiv(p, k)
    ELSE ATanhTerms(u2, MulR(p, u2), k + 2, sum + RDiv(p, k))
ATanh(u) == ATanhTerms(MulR(u, u), u, 1, 0)
\* ln 2
Ln2 == 693147 \div 100
RECURSIVE LogRed(_, _)
LogRed(x, k) ==
    IF 2 * x > 3 * Scale THEN LogRed(RDiv(x, 2), k + 1)
    ELSE IF 4 * x < 3 * Scale THEN LogRed(2 * x, k - 1)
    ELSE k * Ln2 + 2 * ATanh(DivR(x - Scale, x + Scale))
Log(x) == LogRed(x, 0)

\* ------------------------------------------------------------------------
\* C floats: signed zeros, the cast from double
\* ------------------------------------------------------------------------

\* the double value of a stored vertex component <<sign, magnitude>>
Val(f) == f[1] * f[2]
\* float(x): round the double to the float grid.  A result that rounds to
\* zero is the code's exact 0.0 (x - x, 0 * a), which IEEE gives as +0.0.
Float(x) == RDiv(x, FloatUlp) * FloatUlp
FloatSM(x) == << IF Float(x) < 0 THEN 0 - 1 ELSE 1, Abs(Float(x)) >>
\* unary minus of a float flips the sign bit, of zero too
Neg(f) == << 0 - f[1], f[2] >>

\* atan2(y, x) of two floats, with the IEEE cases for signed zeros
Hypot(a, b) == Sqrt(MulR(a, a) + MulR(b, b))
Least(a, b) == IF a <= b THEN a ELSE b
\* the angle in [0, Pi] of magnitudes ym over xm, th the angle in
\* [0, Pi/4] of the smaller over the hypotenuse
FoldAngle(ym, xm, xsign, th) ==
    IF xsign = 1
    THEN (IF ym <= xm THEN th ELSE HalfPi - th)
    ELSE Pi - (IF ym <= xm THEN th ELSE HalfPi - th)
Atan2(y, x) ==
    IF y[2] = 0
    THEN IF x[1] = 1 THEN 0 ELSE y[1] * Pi
    ELSE IF x[2] = 0 THEN y[1] * HalfPi
    ELSE y[1] * FoldAngle(y[2], x[2], x[1],
                          ASin(DivR(Least(y[2], x[2]), Hypot(x[2], y[2]))))

\* ------------------------------------------------------------------------
\* The external catalog (pictureTypes, pvQtPic.h)
\* ------------------------------------------------------------------------

\* number of supported projections
Nprojections == 7
\* the ASCII names the constructor looks up, in catalog slot order
ProjNames == << "rect", "fish", "equi", "cyli", "sphr", "merc", "ster" >>
\* a name the catalog knows but quadsphere does not support
OtherNames == { "cube" }
\* pictypes.picTypeIndex(name): the slot, or -1
picTypeIndex(name) ==
    IF \E i \in 1..Nprojections : ProjNames[i] = name
    THEN (CHOOSE i \in 1..Nprojections : ProjNames[i] = name) - 1
    ELSE 0 - 1
\* the widths pictypes.maxFov may report for the rectilinear type (degrees)
RectFovs == { 60, 162 }

RECT == picTypeIndex("rect")
FISH == picTypeIndex("fish")
EQUI == picTypeIndex("equi")
CYLI == picTypeIndex("cyli")
SPHR == picTypeIndex("sphr")
MERC == picTypeIndex("merc")
STER == picTypeIndex("ster")

\* ------------------------------------------------------------------------
\* Sizes (constructor, "allocate memory")
\* ------------------------------------------------------------------------

\* C integer division truncates toward zero
CDiv(a, b) == Sgn(a) * Sgn(b) * (Abs(a) \div Abs(b))

\* make sure divs is even, or 1
RoundDivs(a) ==
    LET d == 2 * CDiv(a + 1, 2)
    IN  IF d < 1 THEN 1 ELSE d

Dp1(d) == d + 1
Qpf(d) == d * d
Ppf(d) == Dp1(d) * Dp1(d)
D2(d)  == CDiv(d, 2)
Ntb(d) == D2(d)
Dups(d) == Dp1(d) + 2 * Ntb(d) + 4
VertPnts(d) == 6 * Ppf(d) + Dups(d)
LineWrds(d) == 24 * Qpf(d)
QuadWrds(d) == LineWrds(d)

\* the function f as an array held in memory: every element computed once
Stored(f) == [ f EXCEPT ![CHOOSE x \in DOMAIN f : TRUE] = @ ]

\* an array word nobody has written since new float[nwords]
Unwritten == 0 - 10 ^ 6
\* a vertex slot nobody has written
NoVert == << >>

\* ------------------------------------------------------------------------
\* Vertex generator
\* ------------------------------------------------------------------------

dotp(a, b) == MulR(a[1], b[1]) + MulR(a[2], b[2]) + MulR(a[3], b[3])

\* cube corner coordinates for the front face
ccc == Sqrt(DivR(Scale, 3 * Scale))
vul == << ccc, ccc, ccc >>
vur == << 0 - ccc, ccc, ccc >>
vll == << ccc, 0 - ccc, ccc >>
vlr == << 0 - ccc, 0 - ccc, ccc >>

\* the two interpolation weights at step i of n on an arc of angle om,
\* sin om = som:  a = sin(om (1 - t)) / som, b = sin(om t) / som, t = i * s
SlerpWeights(n, i, om, som) ==
    LET s == DivR(Scale, n * Scale)
        t == i * s
    IN  << DivR(Sin(MulR(om, Scale - t)), som), DivR(Sin(MulR(om, t)), som) >>

\* sin of the angle between two unit vectors
Sq(x) == MulR(x, x)
SinBetween(v0, v1) == Sqrt(Scale - Sq(dotp(v0, v1)))
\* v0 * a + v1 * b for the weights w = <<a, b>>
Blend(v0, v1, w) ==
    [ k \in 1..3 |-> MulR(v0[k], w[1]) + MulR(v1[k], w[2]) ]
ToFloats(p) == [ k \in 1..3 |-> FloatSM(p[k]) ]

\* slerp(divs, v0, v1, pf, 1): the divs + 1 float 3-vectors of one row
SlerpRow(n, v0, v1, om, som) ==
    [ j \in 0..n |-> ToFloats(Blend(v0, v1, SlerpWeights(n, j, om, som))) ]
slerp(n, v0, v1) ==
    SlerpRow(n, v0, v1, ASin(SinBetween(v0, v1)), SinBetween(v0, v1))

\* the front (+Z) face, row by row with a double slerp: the row whose end
\* points carry the weights w, and row i
FrontEnds(n, w) == slerp(n, Blend(vul, vll, w), Blend(vur, vlr, w))
FrontRow(n, i) ==
    FrontEnds(n, SlerpWeights(n, i, ASin(SinBetween(vul, vll)),
                              SinBetween(vul, vll)))

FrontFace(n) ==
    LET rows == [ i \in 0..n |-> FrontRow(n, i) ]
    IN  [ k \in 0..(Ppf(n) - 1) |-> rows[k \div Dp1(n)][k % Dp1(n)] ]

\* the remaining faces: rotations of the front face point ps
\* variant: a mirror image instead of a rotation
RotTopMirror(ps) == << ps[1], ps[3], ps[2] >>
RotTop(ps)    == << ps[1], ps[3], Neg(ps[2]) >>
RotLeft(ps)   == << ps[3], ps[2], Neg(ps[1]) >>
RotBack(ps)   == << Neg(ps[1]), ps[2], Neg(ps[3]) >>
RotBottom(ps) == << ps[1], Neg(ps[3]), ps[2] >>
RotRight(ps)  == << Neg(ps[3]), ps[2], ps[1] >>

\* face f (0 front, 1 top, 2 left, 3 back, 4 bottom, 5 right) of point ps
FacePoint(f, ps) ==
    CASE f = 0 -> ps
      [] f = 1 -> RotTop(ps)
      [] f = 2 -> RotLeft(ps)
      [] f = 3 -> RotBack(ps)
      [] f = 4 -> RotBottom(ps)
      [] OTHER -> RotRight(ps)

\* ------------------------------------------------------------------------
\* Index builder
\* ------------------------------------------------------------------------

\* quad indices: one face, then copied with offset ppf (word m of quadidx)
QuadIndices(d) ==
    LET dp1 == Dp1(d)
        Q[m \in 0..(QuadWrds(d) - 1)] ==
            IF m < 4 * Qpf(d)
            THEN LET q == m \div 4
                     r == q \div d
                     c == q % d
                     k == r * dp1
                 IN  CASE m % 4 = 0 -> k + c
                       [] m % 4 = 1 -> dp1 + k + c
                       [] m % 4 = 2 -> dp1 + k + c + 1
                       [] OTHER     -> k + c + 1
            ELSE Q[m - 4 * Qpf(d)] + Ppf(d)
    IN  Q

\* line indices: which quad corner each of the 4 line words of face f copies
\* variant: every face draws the same two edges of a quad
LinePatternSame(f) == << 0, 1, 0, 3 >>
LinePattern(f) ==
    CASE f = 0 -> << 0, 1, 0, 3 >>
      [] f = 1 -> << 0, 1, 0, 3 >>
      [] f = 2 -> << 0, 1, 2, 1 >>
      [] f = 3 -> << 0, 1, 2, 1 >>
      [] f = 4 -> << 0, 3, 2, 3 >>
      [] OTHER -> << 0, 1, 0, 3 >>

\* word m of lineidx, from the quad words qq
LineIndices(d, qq) ==
    [ m \in 0..(LineWrds(d) - 1) |->
        LET q == m \div 4
            f == q \div Qpf(d)
        IN  qq[4 * q + LinePattern(f)[(m % 4) + 1]] ]

\* ------------------------------------------------------------------------
\* Projection mapper
\* ------------------------------------------------------------------------

ninv == -100
pinv == 10100
CLIP(x) == IF x < ninv THEN ninv ELSE IF x > pinv THEN pinv ELSE x
INVAL(t) == IF t > 0 THEN pinv ELSE ninv
EVAL(t) ==
    IF t < Scale \div 2
    THEN IF t < 0 THEN t ELSE 0
    ELSE IF t > Scale THEN t ELSE Scale

Half(x) == MulR(Scale \div 2, x)

\* fov limits
amaxrect(fovw) == DEG2RAD(fovw)
tmaxrect(fovw) == Tan(amaxrect(fovw))
rectTestAngle  == MulR(4500, Pi)
amaxcyl  == DEG2RAD(160)
amaxsph  == DEG2RAD(360)
amaxfish == DEG2RAD(360)
amaxmerc == DEG2RAD(160)
cminmerc == Cos(amaxmerc)
tmaxmerc == Log(Tan(amaxmerc) + DivR(Scale, cminmerc))
amaxster == DEG2RAD(310)
tmaxster == Tan(Half(amaxster))

\* the angles and their sines and cosines of one vertex ps
Angles(ps) ==
    LET x == Val(ps[1])
        y == Val(ps[2])
        z == Val(ps[3])
        sza == Sqrt(MulR(x, x) + MulR(y, y))
    IN  [ xa  |-> 0 - Atan2(ps[1], ps[3]),
          ya  |-> ACos(y),
          za  |-> ACos(z),
          sxa |-> 0 - x,
          cxa |-> z,
          sya |-> y,
          cya |-> Sqrt(MulR(x, x) + MulR(z, z)),
          sza |-> sza,
          cza |-> z,
          sx  |-> IF sza >= 1 THEN DivR(0 - x, sza) ELSE 0,
          sy  |-> IF sza >= 1 THEN DivR(0 - y, sza) ELSE 0 ]

\* the seven coordinate pairs of one vertex with angles a, by catalog
\* slot; tmaxr is tmaxrect.  The local double s is shared by the
\* projections; each sN is s after projection N.
ProjectVertex(a, tmaxr) ==
    LET \* rectilinear
        rvalid == ~(a.za > rectTestAngle)
        s1   == IF rvalid
                THEN DivR(Half(DivR(a.sza, a.cza)), tmaxr)
                ELSE 0
        rect == IF rvalid
                THEN << Float(CLIP(Scale \div 2 + MulR(s1, a.sx))),
                        Float(CLIP(Scale \div 2 + MulR(s1, a.sy))) >>
                ELSE << INVAL(a.sx), INVAL(a.sy) >>
        \* fisheye
        s2   == Half(Sqrt(Half(Scale - a.cza)))
        fish == IF a.za > amaxfish
                THEN << INVAL(a.xa), INVAL(a.ya - Half(Pi)) >>
                ELSE << Float(CLIP(Scale \div 2 + MulR(s2, a.sx))),
                        Float(CLIP(Scale \div 2 + MulR(s2, a.sy))) >>
        \* equirectangular
        equi == << Float(CLIP(Scale \div 2 + DivR(Half(a.xa), Pi))),
                   Float(CLIP(DivR(a.ya, Pi))) >>
        \* cylindrical
        s3   == a.ya - Half(Pi)
        cyli == IF Abs(s3) > amaxcyl
                THEN << INVAL(a.xa), INVAL(s3) >>
                ELSE << equi[1],
                        Float(CLIP(Scale \div 2
                              - DivR(Half(DivR(a.sya, a.cya)), tmaxr))) >>
        \* equiangular sphere
        s4   == IF a.za > amaxsph THEN s3 ELSE DivR(Half(a.za), Pi)
        sphr == IF a.za > amaxsph
                THEN << INVAL(a.xa), INVAL(a.ya - Half(Pi)) >>
                ELSE << Float(CLIP(Scale \div 2 + MulR(s4, a.sx))),
                        Float(CLIP(Scale \div 2 + MulR(s4, a.sy))) >>
        \* mercator
        mvalid == ~(Abs(a.cya) < cminmerc)
        s5   == IF mvalid THEN Log(DivR(a.sya + Scale, a.cya)) ELSE s4
        merc == << equi[1],
                   IF mvalid THEN Float(CLIP(DivR(s5, tmaxmerc)))
                             ELSE INVAL(s4) >>
        \* stereographic
        ster == IF a.za > amaxster
                THEN << INVAL(a.sx), INVAL(a.sy) >>
                ELSE LET s6 == DivR(Tan(Half(a.za)), tmaxster)
                     IN  << Float(CLIP(Scale \div 2 + MulR(s6, a.sx))),
                            Float(CLIP(Scale \div 2 + MulR(s6, a.sy))) >>
    IN  [ p \in 0..(Nprojections - 1) |->
            CASE p = RECT -> rect
              [] p = FISH -> fish
              [] p = EQUI -> equi
              [] p = CYLI -> cyli
              [] p = SPHR -> sphr
              [] p = MERC -> merc
              [] OTHER    -> ster ]

\* one pass of the loop over the vertices
VertexTCs(ps, fovw) == ProjectVertex(Angles(ps), tmaxrect(fovw))

\* ------------------------------------------------------------------------
\* Seam repair
\* ------------------------------------------------------------------------

setEdgeTCs(base, ic, id) ==
    LET b1 == [ base EXCEPT ![ic] = EVAL(base[ic - 2]) ]
        b2 == [ b1 EXCEPT ![id] = EVAL(b1[ic + 2]) ]
    IN  [ b2 EXCEPT ![id + 1] = b2[ic + 1] ]

copyTCs(base, ic, id) ==
    LET b1 == [ base EXCEPT ![id] = base[ic] ]
    IN  [ b1 EXCEPT ![id + 1] = b1[ic + 1] ]

\* point and quad indices of the seam
Qtb(d) == Ntb(d) - 1
Ipt(d) == Ppf(d) + D2(d)
Iqt(d) == Qpf(d) + D2(d)
Ipk(d) == 3 * Ppf(d) + D2(d)
Iqk(d) == 3 * Qpf(d) + D2(d)
Ipb(d) == 4 * Ppf(d) + (Dp1(d) - Ntb(d)) * Dp1(d) + D2(d)
Iqb(d) == 4 * Qpf(d) + (d - 1 - Qtb(d)) * d + D2(d)
Idt(d) == 6 * Ppf(d)
\* variant: the back column starts one slot late
IdkLate(d) == Idt(d) + Ntb(d) + 1
Idk(d) == Idt(d) + Ntb(d)
Idb(d) == Idk(d) + Dp1(d)
\* variant: the pole copies start one slot late
IdcPast(d) == Idb(d) + Ntb(d) + 1
Idc(d) == Idb(d) + Ntb(d)

\* the TC sets one pass of a seam loop touches, in the order of the code
CopyIn(tc, p, ic, id) == [ tc EXCEPT ![p] = copyTCs(@, ic, id) ]
EdgeIn(tc, p, ic, id) == [ tc EXCEPT ![p] = setEdgeTCs(@, ic, id) ]
SeamTCs(tc, ic, id) ==
    EdgeIn(EdgeIn(CopyIn(EdgeIn(CopyIn(tc, SPHR, ic, id),
                                RECT, ic, id),
                         FISH, ic, id),
                  CYLI, ic, id),
           EQUI, ic, id)

\* one seam loop: n passes from pass r on; st = [v, t, pd], ps and pd in
\* points, ic and id in TC words
RECURSIVE SeamLoop(_, _, _, _, _, _, _)
SeamLoop(st, ps, ic, id, r, n, dp1) ==
    IF r >= n THEN st
    ELSE SeamLoop([ v  |-> [ st.v EXCEPT ![st.pd] = st.v[ps] ],
                    t  |-> SeamTCs(st.t, ic, id),
                    pd |-> st.pd + 1 ],
                  ps + dp1, ic + 2 * dp1, id + 2, r + 1, n, dp1)

\* copy the seam vertices in ascending address order and post their TCs
CopySeamVerts(d, v, t) ==
    LET s0 == [ v |-> v, t |-> t, pd |-> Idt(d) ]
        s1 == SeamLoop(s0, Ipt(d), 2 * Ipt(d), 2 * Idt(d), 0, Ntb(d), Dp1(d))
        s2 == SeamLoop(s1, Ipk(d), 2 * Ipk(d), 2 * Idk(d), 0, Dp1(d), Dp1(d))
    IN  SeamLoop(s2, Ipb(d), 2 * Ipb(d), 2 * Idb(d), 0, Ntb(d), Dp1(d))

\* change right quad indices of non-center points; q is the index-word
\* array, qb the word where quadidx starts, pq a word offset in quadidx
RECURSIVE RepointTopLoop(_, _, _, _, _, _, _)
RepointTopLoop(q, qb, pq, idt, r, n, d) ==
    IF r >= n THEN [ q EXCEPT ![qb + pq] = idt ]
    ELSE RepointTopLoop([ q EXCEPT ![qb + pq] = idt, ![qb + pq + 1] = idt + 1 ],
                        qb, pq + 4 * d, idt + 1, r + 1, n, d)

RECURSIVE RepointBackLoop(_, _, _, _, _, _, _)
RepointBackLoop(q, qb, pq, idk, r, n, d) ==
    IF r >= n THEN [ q EXCEPT ![qb + pq + 1] = idk ]
    ELSE RepointBackLoop([ q EXCEPT ![qb + pq + 1] = idk,
                                    ![qb + pq + 4 * d] = idk ],
                         qb, pq + 4 * d, idk + 1, r + 1, n, d)

RECURSIVE RepointBotLoop(_, _, _, _, _, _, _)
RepointBotLoop(q, qb, pq, idb, r, n, d) ==
    IF r >= n THEN q
    ELSE RepointBotLoop([ q EXCEPT ![qb + pq + 4 * d] = idb,
                                   ![qb + pq + 4 * d + 1] = idb + 1 ],
                        qb, pq + 4 * d, idb + 1, r + 1, n, d)

RepointSeamQuads(d, q) ==
    LET qb == LineWrds(d)
        q1 == RepointTopLoop(q, qb, 4 * Iqt(d), Idt(d), 0, Qtb(d), d)
        q2 == RepointBackLoop([ q1 EXCEPT ![qb + 4 * Iqk(d)] = Idk(d) ],
                              qb, 4 * Iqk(d), Idk(d) + 1, 0, d - 1, d)
    IN  RepointBotLoop([ q2 EXCEPT ![qb + 4 * Iqb(d) + 1] = Idb(d) ],
                       qb, 4 * Iqb(d), Idb(d), 0, Qtb(d), d)

\* the center points
TopCentre(d) == Ppf(d) + (Dp1(d) + 1) * D2(d)
BotCentre(d) == 4 * Ppf(d) + (Dp1(d) + 1) * D2(d)

CopyCentreVerts(d, v) ==
    [ v EXCEPT ![Idc(d)]     = v[TopCentre(d)],
               ![Idc(d) + 1] = v[TopCentre(d)],
               ![Idc(d) + 2] = v[BotCentre(d)],
               ![Idc(d) + 3] = v[BotCentre(d)] ]

\* unsigned jq: upper right quad of top, lower right quad of bottom, and
\* the word of quadidx each pq points at
JqTop(d) == d * (D2(d) - 1) + D2(d)
JqBot(d) == (d + 1) * D2(d)
PqTop(d) == 4 * (Qpf(d) + JqTop(d))
PqBot(d) == 4 * (4 * Qpf(d) + JqBot(d))

\* makeCTCtop / makeCTCbot on one TC set ps; q(k) is the index word pq[k]
makeCTCtop(ps, pd, q, qp) ==
    LET p1 == [ ps EXCEPT ![pd] = ps[2 * q[qp - 1]] ]
        p2 == [ p1 EXCEPT ![pd + 1] = p1[2 * q[qp - 2] + 1] ]
        p3 == [ p2 EXCEPT ![pd + 2] = p2[2 * q[qp]] ]
    IN  [ p3 EXCEPT ![pd + 3] = p3[2 * q[qp + 1] + 1] ]

makeCTCbot(ps, pd, q, qp) ==
    LET p1 == [ ps EXCEPT ![pd] = ps[2 * q[qp - 2]] ]
        p2 == [ p1 EXCEPT ![pd + 1] = p1[2 * q[qp - 1] + 1] ]
        p3 == [ p2 EXCEPT ![pd + 2] = p2[2 * q[qp + 1]] ]
    IN  [ p3 EXCEPT ![pd + 3] = p3[2 * q[qp] + 1] ]

\* the five TC sets the center fix-up rebuilds, in the order of the code
CentreSets == << SPHR, RECT, FISH, CYLI, EQUI >>

\* ------------------------------------------------------------------------
\* Accessors (quadsphere.h)
\* ------------------------------------------------------------------------

SizeofFloat == 4
vertexOffset == 0
vertexBytes(vp) == 3 * vp * SizeofFloat
texCoordSize(vp) == 2 * vp * SizeofFloat
dataBlockSize(vp) == 15 * vp * SizeofFloat
\* texCoords(proj): the word offset of the set from words, or -1 for null
texCoordsWord(name, vp) ==
    LET i == picTypeIndex(name)
    IN  IF i < 0 \/ i >= Nprojections THEN 0 - 1
        ELSE 3 * vp + i * 2 * vp
texCoordOffset(name, vp) ==
    IF texCoordsWord(name, vp) < 0 THEN 0
    ELSE texCoordsWord(name, vp) * SizeofFloat
lineIndexOffset(vp) == (3 * vp + Nprojections * 2 * vp) * SizeofFloat
lineIndexSize(lw) == lw * SizeofFloat
quadIndexOffset(vp, lw) == lineIndexOffset(vp) + lw * SizeofFloat
quadIndexSize(qw) == qw * SizeofFloat

\* what a read of a float nobody wrote may give
Garbage == { 0 - 7 * Scale, Scale \div 4, 3 * Scale }

\* ------------------------------------------------------------------------
\* State
\* ------------------------------------------------------------------------

VARIABLES
    pc,         \* where the constructor stands; "done" once it returned
    arg,        \* the constructor argument
    fovw,       \* the rectilinear max fov width the catalog reports
    divs,       \* the resolution after rounding
    vertpnts,   \* vertices and TCs, in points
    linewrds,   \* line indices, in words
    quadwrds,   \* quad indices, in words
    verts,      \* the vertex array, one 3-vector per point
    TCs,        \* the TC arrays by catalog slot, in words (2 per point)
    idx,        \* lineidx followed by quadidx, in words
    ret         \* what the last accessor call returned

vars == << pc, arg, fovw, divs, vertpnts, linewrds, quadwrds, verts, TCs, idx, ret >>

\* lineidx[k] and quadidx[k]; quadidx = lineidx + linewrds
lineidx(k) == idx[k]
quadidx(k) == idx[linewrds + k]

Args == (0 - MaxNeg)..MaxArg

Init ==
    /\ pc = "start"
    /\ arg \in Args
    /\ fovw \in RectFovs
    /\ divs = 0
    /\ vertpnts = 0
    /\ linewrds = 0
    /\ quadwrds = 0
    /\ verts = << >>
    /\ TCs = << >>
    /\ idx = << >>
    /\ ret = [ fn |-> "none", key |-> "", val |-> 0 ]

\* round divs, size the block, new float[nwords], set the array pointers
Allocate ==
    /\ pc = "start"
    /\ LET d == RoundDivs(arg)
       IN  /\ divs' = d
           /\ vertpnts' = VertPnts(d)
           /\ linewrds' = LineWrds(d)
           /\ quadwrds' = QuadWrds(d)
           /\ verts' = [ i \in 0..(VertPnts(d) - 1) |-> NoVert ]
           /\ TCs' = [ p \in 0..(Nprojections - 1) |->
                        [ w \in 0..(2 * VertPnts(d) - 1) |-> Unwritten ] ]
           /\ idx' = [ w \in 0..(LineWrds(d) + QuadWrds(d) - 1) |-> Unwritten ]
    /\ pc' = "front"
    /\ UNCHANGED << arg, fovw, ret >>

\* the +Z face
BuildFront ==
    /\ pc = "front"
    /\ LET ff == FrontFace(divs)
       IN  verts' = [ i \in DOMAIN verts |->
                        IF i < Ppf(divs) THEN ff[i] ELSE verts[i] ]
    /\ pc' = "faces"
    /\ UNCHANGED << arg, fovw, divs, vertpnts, linewrds, quadwrds, TCs, idx, ret >>

\* the remaining faces
RotateFaces ==
    /\ pc = "faces"
    /\ verts' = [ i \in DOMAIN verts |->
                    IF i >= Ppf(divs) /\ i < 6 * Ppf(divs)
                    THEN FacePoint(i \div Ppf(divs), verts[i % Ppf(divs)])
                    ELSE verts[i] ]
    /\ pc' = "quads"
    /\ UNCHANGED << arg, fovw, divs, vertpnts, linewrds, quadwrds, TCs, idx, ret >>

BuildQuads ==
    /\ pc = "quads"
    /\ LET qi == QuadIndices(divs)
       IN  idx' = [ w \in DOMAIN idx |->
                      IF w >= linewrds THEN qi[w - linewrds] ELSE idx[w] ]
    /\ pc' = "lines"
    /\ UNCHANGED << arg, fovw, divs, vertpnts, linewrds, quadwrds, verts, TCs, ret >>

BuildLines ==
    /\ pc = "lines"
    /\ LET li == LineIndices(divs, [ k \in 0..(quadwrds - 1) |-> quadidx(k) ])
       IN  idx' = [ w \in DOMAIN idx |->
                      IF w < linewrds THEN li[w] ELSE idx[w] ]
    /\ pc' = "texcoords"
    /\ UNCHANGED << arg, fovw, divs, vertpnts, linewrds, quadwrds, verts, TCs, ret >>

\* loop over all 6 * ppf vertices
MapTexCoords ==
    /\ pc = "texcoords"
    /\ LET n == 6 * Ppf(divs)
           m == Stored([ v \in 0..(n - 1) |-> VertexTCs(verts[v], fovw) ])
       IN  TCs' = [ p \in DOMAIN TCs |->
                     [ w \in DOMAIN TCs[p] |->
                         IF w < 2 * n THEN m[w \div 2][p][(w % 2) + 1]
                                      ELSE TCs[p][w] ] ]
    /\ pc' = "seam"
    /\ UNCHANGED << arg, fovw, divs, vertpnts, linewrds, quadwrds, verts, idx, ret >>

\* copy the seam vertices, post their TCs
CopySeam ==
    /\ pc = "seam"
    /\ LET st == CopySeamVerts(divs, verts, TCs)
       IN  /\ verts' = st.v
           /\ TCs' = st.t
    /\ pc' = "repoint"
    /\ UNCHANGED << arg, fovw, divs, vertpnts, linewrds, quadwrds, idx, ret >>

RepointSeam ==
    /\ pc = "repoint"
    /\ idx' = RepointSeamQuads(divs, idx)
    /\ pc' = "centres"
    /\ UNCHANGED << arg, fovw, divs, vertpnts, linewrds, quadwrds, verts, TCs, ret >>

\* fix up the center points: copy vertices, build the top TCs and change
\* the top indices, then the same for the bottom
SplitCentres ==
    /\ pc = "centres"
    /\ LET qb  == linewrds
           jt  == 2 * Idc(divs)
           t1  == [ p \in DOMAIN TCs |->
                     IF \E k \in 1..Len(CentreSets) : CentreSets[k] = p
                     THEN makeCTCtop(TCs[p], jt, idx, qb + PqTop(divs))
                     ELSE TCs[p] ]
           q1  == [ idx EXCEPT ![qb + PqTop(divs) - 2] = Idc(divs),
                               ![qb + PqTop(divs) + 1] = Idc(divs) + 1 ]
           jb  == 2 * Idc(divs) + 4
           t2  == [ p \in DOMAIN TCs |->
                     IF \E k \in 1..Len(CentreSets) : CentreSets[k] = p
                     THEN makeCTCbot(t1[p], jb, q1, qb + PqBot(divs))
                     ELSE t1[p] ]
           q2  == [ q1 EXCEPT ![qb + PqBot(divs) - 1] = Idc(divs) + 2,
                              ![qb + PqBot(divs)] = Idc(divs) + 3 ]
       IN  /\ verts' = CopyCentreVerts(divs, verts)
           /\ TCs' = t2
           /\ idx' = q2
    /\ pc' = "done"
    /\ UNCHANGED << arg, fovw, divs, vertpnts, linewrds, quadwrds, ret >>

\* texCoordOffset(proj) on the built object
TexCoordOffsetCall ==
    /\ pc = "done"
    /\ \E i \in 1..Nprojections, other \in OtherNames :
         \E name \in { ProjNames[i], other } :
           ret' = [ fn |-> "texCoordOffset", key |-> name,
                    val |-> texCoordOffset(name, vertpnts) ]
    /\ UNCHANGED << pc, arg, fovw, divs, vertpnts, linewrds, quadwrds, verts, TCs, idx >>

\* the points a client probes: the first vertex, the first and the last
\* duplicate slot
ProbePoints == { 0, 6 * Ppf(divs), vertpnts - 1 }

\* a client reads one float of texCoords(proj)
ReadTexCoord ==
    /\ pc = "done"
    /\ \E i \in 1..Nprojections, v \in ProbePoints, c \in 0..1 :
         LET w == TCs[i - 1][2 * v + c]
         IN  \E val \in (IF w = Unwritten THEN Garbage ELSE { w }) :
               ret' = [ fn |-> "texCoords", key |-> ProjNames[i], val |-> val ]
    /\ UNCHANGED << pc, arg, fovw, divs, vertpnts, linewrds, quadwrds, verts, TCs, idx >>

Next ==
    \/ Allocate
    \/ BuildFront
    \/ RotateFaces
    \/ BuildQuads
    \/ BuildLines
    \/ MapTexCoords
    \/ CopySeam
    \/ RepointSeam
    \/ SplitCentres
    \/ TexCoordOffsetCall
    \/ ReadTexCoord

Spec == Init /\ [][Next]_vars

\* ------------------------------------------------------------------------
\* Properties
\* ------------------------------------------------------------------------

\* the stages the constructor has yet to run, by what is already built
SizesKnown   == pc # "start"
BeforeSeam   == pc \in { "front", "faces", "quads", "lines", "texcoords", "seam" }
QuadsBuilt   == pc \in { "lines", "texcoords", "seam", "repoint", "centres", "done" }
LinesBuilt   == pc \in { "texcoords", "seam", "repoint", "centres", "done" }
TCsMapped    == pc \in { "seam", "repoint", "centres", "done" }
Constructed  == pc = "done"

\* the base grid vertices and the duplicate slots, as point indices
BasePoints == 0..(6 * Ppf(divs) - 1)
DupPoints  == (6 * Ppf(divs))..(vertpnts - 1)
\* the position of a stored vertex
Pos(v) == << Val(v[1]), Val(v[2]), Val(v[3]) >>

\* C1: for every constructor argument (negative, zero, odd or even), once
\* the constructor has returned every entry of the quad index array and
\* every entry of the line index array is a vertex index in
\* [0, vertpnts), vertpnts being the total with the seam duplicates.
C1_IndicesInRange ==
    Constructed =>
        /\ \A k \in 0..(quadwrds - 1) : quadidx(k) \in 0..(vertpnts - 1)
        /\ \A k \in 0..(linewrds - 1) : lineidx(k) \in 0..(vertpnts - 1)

\* a negative argument, and a quad that uses the very last duplicate slot
C1_Witness ==
    /\ Constructed
    /\ arg < 0
    /\ \E k \in 0..(quadwrds - 1) : quadidx(k) = vertpnts - 1

\* C2: for the rounded resolution n = divs the vertex count is
\* 6(n+1)^2 + (n+1) + 2 floor(n/2) + 4, the quad and the line index counts
\* are both 24 n^2 (6 n^2 quads), n = 2 gives 54 + 9 = 63 vertices and 24
\* quads, and seam repair writes exactly the duplicate vertex slots: none
\* is written before it, the top run, back column and bottom run are
\* written by the copy loops, the 4 pole copies by the centre fix-up, and
\* none is left unwritten at the end.
C2_Counts ==
    SizesKnown =>
        /\ vertpnts = 6 * (divs + 1) * (divs + 1) + (divs + 1)
                        + 2 * (divs \div 2) + 4
        /\ quadwrds = 24 * divs * divs
        /\ linewrds = 24 * divs * divs
        /\ quadwrds \div 4 = 6 * divs * divs
        /\ (divs = 2 => vertpnts = 54 + 9 /\ quadwrds \div 4 = 24)
        /\ (BeforeSeam => \A i \in DupPoints : verts[i] = NoVert)
        /\ (pc = "seam" => \A i \in BasePoints : verts[i] # NoVert)
        /\ (pc \in { "repoint", "centres" } =>
              \A i \in DupPoints : (verts[i] = NoVert) <=> (i > vertpnts - 5))
        /\ (Constructed => \A i \in 0..(vertpnts - 1) : verts[i] # NoVert)

\* resolution 2 built: 63 vertices, the last of them a pole copy
C2_Witness ==
    /\ Constructed
    /\ divs = 2
    /\ vertpnts = 63
    /\ verts[62] # NoVert

\* C3: an odd resolution n is rounded up to n + 1, and constructing with
\* resolution 1 yields the bare cube: exactly 6 quads, 4 corner vertices
\* per face, 8 distinct corner positions before seam duplication.
C3_OneIsBareCube ==
    Constructed =>
        /\ (arg > 0 /\ arg % 2 = 1 /\ arg # 1 => divs = arg + 1)
        /\ (arg = 1 =>
              /\ quadwrds \div 4 = 6
              /\ Ppf(divs) = 4
              /\ Cardinality({ Pos(verts[i]) : i \in BasePoints }) = 8)

\* C4: the data block [0, dataBlockSize) holds the vertex array and the
\* coordinate sets of all seven projections: dataBlockSize = vertexBytes +
\* 7 * texCoordSize, and for every supported projection the byte range
\* [texCoordOffset, texCoordOffset + texCoordSize) lies inside the block,
\* overlaps neither the vertex range nor another projection's range, and
\* lies below the line and quad index ranges.
C4_BlockHoldsAllSets ==
    Constructed =>
        /\ dataBlockSize(vertpnts) =
              vertexBytes(vertpnts) + 7 * texCoordSize(vertpnts)
        /\ \A i \in 1..Nprojections :
              /\ texCoordOffset(ProjNames[i], vertpnts)
                    >= vertexOffset + vertexBytes(vertpnts)
              /\ texCoordOffset(ProjNames[i], vertpnts) + texCoordSize(vertpnts)
                    <= dataBlockSize(vertpnts)
              /\ texCoordOffset(ProjNames[i], vertpnts) + texCoordSize(vertpnts)
                    <= lineIndexOffset(vertpnts)
              /\ \A j \in 1..Nprojections :
                    i # j =>
                      \/ texCoordOffset(ProjNames[i], vertpnts)
                            + texCoordSize(vertpnts)
                            <= texCoordOffset(ProjNames[j], vertpnts)
                      \/ texCoordOffset(ProjNames[j], vertpnts)
                            + texCoordSize(vertpnts)
                            <= texCoordOffset(ProjNames[i], vertpnts)
        /\ lineIndexOffset(vertpnts) + lineIndexSize(linewrds)
              <= quadIndexOffset(vertpnts, linewrds)
        /\ (ret.fn = "texCoordOffset" /\ picTypeIndex(ret.key) >= 0 =>
              ret.val + texCoordSize(vertpnts) <= dataBlockSize(vertpnts))

\* C5: once the constructor has returned, for each of the seven
\* projections and every vertex index in [0, vertpnts), the duplicate
\* slots included, both texture coordinates have been assigned and lie in
\* [-0.01, 1.01]; a client that reads a slot reads such a value.
C5_AllSlotsAssigned ==
    Constructed =>
        /\ \A p \in 0..(Nprojections - 1) :
             \A w \in 0..(2 * vertpnts - 1) :
                /\ TCs[p][w] # Unwritten
                /\ TCs[p][w] >= ninv
                /\ TCs[p][w] <= pinv
        /\ (ret.fn = "texCoords" => ret.val >= ninv /\ ret.val <= pinv)

\* the texture coordinates of point v under the projection in slot p
TCs_s(p, v) == TCs[p][2 * v]
TCs_t(p, v) == TCs[p][2 * v + 1]
\* a coordinate outside [0, 1], and one in [-0.01, 1.01]
Outside(c) == c < 0 \/ c > Scale
InMargin(c) == c >= ninv /\ c <= pinv
\* the latitude of a vertex: the angle out of the XZ plane, up positive
Latitude(ps) == Sgn(Val(ps[2])) * ASin(Abs(Val(ps[2])))

\* is the vertex ps beyond the max fov of the projection in slot p: za
\* above the half-fov of the catalog for rectilinear, latitude above 80
\* deg for cylindrical and mercator, za above 155 deg for stereographic,
\* za above 180 deg for fisheye and equiangular
BeyondFov(p, ps) ==
    CASE p = RECT -> ACos(Val(ps[3])) > DEG2RAD(fovw)
      [] p = CYLI -> Abs(Latitude(ps)) > DEG2RAD(2 * 80)
      [] p = MERC -> Abs(Latitude(ps)) > DEG2RAD(2 * 80)
      [] p = STER -> ACos(Val(ps[3])) > DEG2RAD(2 * 155)
      [] p = FISH -> ACos(Val(ps[3])) > DEG2RAD(2 * 180)
      [] p = SPHR -> ACos(Val(ps[3])) > DEG2RAD(2 * 180)
      [] OTHER    -> FALSE

\* C6: a vertex beyond a projection's max fov has that projection's
\* coordinate pair marked: a coordinate of the pair is outside [0, 1] and
\* both are within [-0.01, 1.01]; for rectilinear the limit is the
\* half-fov the catalog reports, whatever it reports.
C6_BeyondFovIsMarked ==
    TCsMapped =>
        \A p \in 0..(Nprojections - 1) :
            \A v \in BasePoints :
                BeyondFov(p, verts[v]) =>
                    /\ Outside(TCs_s(p, v)) \/ Outside(TCs_t(p, v))
                    /\ InMargin(TCs_s(p, v))
                    /\ InMargin(TCs_t(p, v))

\* the centre vertex of the +Z face
FrontCentre == (divs \div 2) * Dp1(divs) + divs \div 2

\* C7: for every even resolution the centre vertex of the +Z face is the
\* forward vertex (0, 0, 1), and it maps to exactly (0.5, 0.5) under each
\* of the seven projections.
C7_ForwardVertexAtCentre ==
    TCsMapped /\ divs % 2 = 0 =>
        /\ Pos(verts[FrontCentre]) = << 0, 0, Scale >>
        /\ \A p \in 0..(Nprojections - 1) :
              /\ TCs_s(p, FrontCentre) = Scale \div 2
              /\ TCs_t(p, FrontCentre) = Scale \div 2

\* the vertices with latitude beyond 80 deg, near the top and the bottom pole
NearTopPole == { v \in BasePoints : Latitude(verts[v]) > DEG2RAD(2 * 80) }
NearBotPole == { v \in BasePoints : 0 - Latitude(verts[v]) > DEG2RAD(2 * 80) }

\* C8: an out-of-range coordinate is the margin value on the side where
\* the point lies.  For the two projections whose t is out of range by
\* latitude: the t written for a vertex beyond 80 deg is a margin value,
\* the cylindrical t is the low one near the top pole and the high one
\* near the bottom pole, and the mercator t takes its sign from the
\* vertex's own latitude, so it differs between the two poles.
C8_MarkerOnOwnSide ==
    TCsMapped =>
        /\ \A v \in NearTopPole :
              /\ TCs_t(CYLI, v) = ninv
              /\ TCs_t(MERC, v) \in { ninv, pinv }
        /\ \A v \in NearBotPole :
              /\ TCs_t(CYLI, v) = pinv
              /\ TCs_t(MERC, v) \in { ninv, pinv }
        /\ \A u \in NearTopPole :
              \A w \in NearBotPole : TCs_t(MERC, u) # TCs_t(MERC, w)

\* the quads, and the position of corner c of quad q and of end e of its
\* line quadruple
QuadSet == 0..(quadwrds \div 4 - 1)
CornerPos(q, c) == Pos(verts[quadidx(4 * q + c)])
LineEndPos(q, e) == Pos(verts[lineidx(4 * q + e)])
\* the four edges of quad q, each the set of its two end positions
QuadEdges(q) == { { CornerPos(q, c), CornerPos(q, (c + 1) % 4) } : c \in 0..3 }

\* the cube lattice: an integer n as a component, the point of the
\* reference face in row i and column j (x falls with the column, y with
\* the row), and the lattice point of base vertex v, carried to its face
\* by the rotation the vertex generator uses
Comp(n) == << IF n < 0 THEN 0 - 1 ELSE 1, Abs(n) >>
FrontLattice(i, j) == << Comp(divs - 2 * j), Comp(divs - 2 * i), Comp(divs) >>
Lattice(v) ==
    Pos(FacePoint(v \div Ppf(divs),
                  FrontLattice((v % Ppf(divs)) \div Dp1(divs),
                               (v % Ppf(divs)) % Dp1(divs))))

\* every geometric grid segment of the sphere: a lattice point p and the
\* point two further along axis k, both on one face of the cube
LatticeRange == { divs - 2 * i : i \in 0..divs }
Step(p, k) == [ a \in 1..3 |-> IF a = k THEN p[a] + 2 ELSE p[a] ]
IsGridStep(p, k) ==
    /\ p[k] + 2 <= divs
    /\ \E a \in (1..3) \ { k } : Abs(p[a]) = divs
GridSegments ==
    UNION { { { p, Step(p, k) } : k \in { m \in 1..3 : IsGridStep(p, m) } } :
              p \in LatticeRange \X LatticeRange \X LatticeRange }

\* the segments the line indices draw, by lattice points
DrawnSegments ==
    { { Lattice(lineidx(2 * k)), Lattice(lineidx(2 * k + 1)) } :
        k \in 0..(linewrds \div 2 - 1) }

\* two positions that agree up to float rounding
Near(a, b) == \A k \in 1..3 : Abs(a[k] - b[k]) <= 3 * FloatUlp
\* base vertices share a lattice point exactly when they share a position
LatticeIsGeometry ==
    LET lat == Stored([ v \in BasePoints |-> Lattice(v) ])
    IN  \A u \in BasePoints : \A w \in BasePoints :
            (lat[u] = lat[w]) <=> Near(Pos(verts[u]), Pos(verts[w]))

\* C9: for every even resolution each line-index quadruple is two
\* segments (words 0-1 and 2-3) that are two distinct edges of its own
\* quad, and every geometric grid segment of the sphere, on the 12 cube
\* edges and inside the 6 faces, is drawn by exactly one line segment:
\* none is drawn twice, none is missing, nothing else is drawn.  Faces
\* that meet at a cube edge are identified through the lattice, which
\* agrees with the vertex positions.
C9_EverySegmentOnce ==
    LinesBuilt /\ divs % 2 = 0 =>
        /\ \A q \in QuadSet :
              /\ { LineEndPos(q, 0), LineEndPos(q, 1) } \in QuadEdges(q)
              /\ { LineEndPos(q, 2), LineEndPos(q, 3) } \in QuadEdges(q)
              /\ { LineEndPos(q, 0), LineEndPos(q, 1) }
                    # { LineEndPos(q, 2), LineEndPos(q, 3) }
        /\ \A k \in 0..(linewrds - 1) : lineidx(k) \in BasePoints
        /\ Cardinality(DrawnSegments) = linewrds \div 2
        /\ DrawnSegments = GridSegments
        /\ Cardinality(GridSegments) = 12 * divs + 6 * 2 * divs * (divs - 1)
        /\ (pc = "texcoords" => LatticeIsGeometry)

\* resolution 4 built: 192 segments drawn, one of them on a cube edge
C9_Witness ==
    /\ Constructed
    /\ divs = 4
    /\ Cardinality(DrawnSegments) = 192
    /\ \E s \in DrawnSegments :
          \A p \in s : Cardinality({ a \in 1..3 : Abs(p[a]) = divs }) >= 2

\* the orientation of corners 0, 1, 2 of quad q: p0 . ((p1 - p0) x (p2 - p0)),
\* negative when the corners run counter-clockwise as seen from the centre
Minus(a, b) == << a[1] - b[1], a[2] - b[2], a[3] - b[3] >>
Cross(a, b) ==
    << MulR(a[2], b[3]) - MulR(a[3], b[2]),
       MulR(a[3], b[1]) - MulR(a[1], b[3]),
       MulR(a[1], b[2]) - MulR(a[2], b[1]) >>
Orientation(q) ==
    dotp(CornerPos(q, 0),
         Cross(Minus(CornerPos(q, 1), CornerPos(q, 0)),
               Minus(CornerPos(q, 2), CornerPos(q, 0))))

\* the matrix of the map that carries the reference face to face f, and
\* the determinant of a 3 x 3 matrix
UnitVec(k) == [ a \in 1..3 |-> Comp(IF a = k THEN 1 ELSE 0) ]
RotMatrix(f) == [ k \in 1..3 |-> Pos(FacePoint(f, UnitVec(k))) ]
Det3(m) ==
    m[1][1] * (m[2][2] * m[3][3] - m[2][3] * m[3][2])
    - m[1][2] * (m[2][1] * m[3][3] - m[2][3] * m[3][1])
    + m[1][3] * (m[2][1] * m[3][2] - m[2][2] * m[3][1])
\* quad q is built of the corners (r,c), (r+1,c), (r+1,c+1), (r,c+1)
HasCornerOrder(q) ==
    LET f == q \div Qpf(divs)
        r == (q % Qpf(divs)) \div divs
        c == (q % Qpf(divs)) % divs
        b == f * Ppf(divs)
    IN  /\ quadidx(4 * q)     = b + r * Dp1(divs) + c
        /\ quadidx(4 * q + 1) = b + (r + 1) * Dp1(divs) + c
        /\ quadidx(4 * q + 2) = b + (r + 1) * Dp1(divs) + c + 1
        /\ quadidx(4 * q + 3) = b + r * Dp1(divs) + c + 1

QuadsBeforeRepair == Stored(QuadIndices(divs))
LinesBeforeRepair == Stored(LineIndices(divs, QuadIndices(divs)))

\* quad q of its face lies in column d/2 - 1 or d/2, the two columns along
\* the seam, and on the top, back or bottom face
FaceOf(q) == q \div Qpf(divs)
ColumnOf(q) == (q % Qpf(divs)) % divs
AlongSeam(q) ==
    /\ FaceOf(q) \in { 1, 3, 4 }
    /\ ColumnOf(q) \in { D2(divs) - 1, D2(divs) }

\* the quad corners and line words seam repair has rewritten
RepointedCorners ==
    { w \in 0..(quadwrds - 1) : quadidx(w) # QuadsBeforeRepair[w] }
RewrittenLineWords ==
    { w \in 0..(linewrds - 1) : lineidx(w) # LinesBeforeRepair[w] }

\* C11: seam repair never changes the geometry of the mesh, at every
\* resolution the constructor accepts (1 included): a repointed quad corner
\* refers to a slot holding the very position its old vertex has, only
\* corners of quads along the seam on the top, back and bottom faces are
\* rewritten, and no line index changes.
C11_RepairKeepsGeometry ==
    Constructed =>
        /\ RewrittenLineWords = { }
        /\ \A w \in RepointedCorners :
              /\ AlongSeam(w \div 4)
              /\ verts[quadidx(w)] = verts[QuadsBeforeRepair[w]]

\* the same, for the even resolutions only
C11_RepairKeepsGeometryEven ==
    Constructed /\ divs % 2 = 0 =>
        /\ RewrittenLineWords = { }
        /\ \A w \in RepointedCorners :
              /\ AlongSeam(w \div 4)
              /\ verts[quadidx(w)] = verts[QuadsBeforeRepair[w]]

\* the s of point v in the equirectangular set, and the two sides of the wrap
EquiS(v) == TCs[EQUI][2 * v]
LowSide(s) == s <= Scale \div 4
HighSide(s) == s >= 3 * (Scale \div 4)
Straddles(q) ==
    /\ \E c \in 0..3 : LowSide(EquiS(quadidx(4 * q + c)))
    /\ \E c \in 0..3 : HighSide(EquiS(quadidx(4 * q + c)))

\* the seam points below the poles as pairs << original, duplicate >>: the
\* rear rows of the top face, all rows of the back, the rear rows of the
\* bottom face
SeamPairs ==
    { << Ipt(divs) + r * Dp1(divs), Idt(divs) + r >> : r \in 0..(Ntb(divs) - 1) }
    \cup { << Ipk(divs) + r * Dp1(divs), Idk(divs) + r >> : r \in 0..divs }
    \cup { << Ipb(divs) + r * Dp1(divs), Idb(divs) + r >> : r \in 0..(Ntb(divs) - 1) }

\* original and duplicate carry the side of the neighbour in column
\* d/2 - 1 and d/2 + 1
SideValuesPosted ==
    \A sp \in SeamPairs :
        /\ EquiS(sp[1]) = EVAL(EquiS(sp[1] - 1))
        /\ EquiS(sp[2]) = EVAL(EquiS(sp[1] + 1))
        /\ EquiS(sp[1]) \in { 0, Scale }
        /\ EquiS(sp[2]) \in { 0, Scale }

\* the quads in column d/2 use the duplicates, the others the originals
ColumnsSplit ==
    \A sp \in SeamPairs : \A w \in 0..(quadwrds - 1) :
        QuadsBeforeRepair[w] = sp[1] =>
            quadidx(w) = (IF ColumnOf(w \div 4) = D2(divs) THEN sp[2] ELSE sp[1])

\* each rear quad at a pole uses its own pole duplicate, whose s is the s of
\* the seam vertex next to the pole in that half
PolesSplit ==
    /\ quadidx(PqTop(divs) - 2) = Idc(divs)
    /\ quadidx(PqTop(divs) + 1) = Idc(divs) + 1
    /\ quadidx(PqBot(divs) - 1) = Idc(divs) + 2
    /\ quadidx(PqBot(divs)) = Idc(divs) + 3
    /\ EquiS(Idc(divs)) = EquiS(TopCentre(divs) - Dp1(divs))
    /\ EquiS(Idc(divs) + 1) = EquiS(Idk(divs) - 1)
    /\ EquiS(Idc(divs) + 2) = EquiS(BotCentre(divs) + Dp1(divs))
    /\ EquiS(Idc(divs) + 3) = EquiS(Idb(divs))

\* C12: for every even resolution, after seam repair no quad has corners on
\* both sides of the wrap in the equirectangular set (an s <= 0.25 and an
\* s >= 0.75); originals and duplicates carry the side values of their
\* neighbours, column d/2 uses the duplicates and column d/2 - 1 the
\* originals, and each rear quad at a pole has its own pole duplicate.
C12_NoQuadStraddles ==
    Constructed /\ divs % 2 = 0 =>
        /\ \A q \in QuadSet : ~Straddles(q)
        /\ SideValuesPosted
        /\ ColumnsSplit
        /\ PolesSplit

\* the same with the one quad excepted that does straddle: the front quad
\* of the top face right of the pole (row d/2, column d/2), whose pole
\* corner keeps the s the projection mapper gave the pole itself
TopFrontPoleQuad == Qpf(divs) + D2(divs) * divs + D2(divs)
C12_OnlyTopFrontPoleQuadStraddles ==
    Constructed /\ divs % 2 = 0 =>
        /\ \A q \in QuadSet : Straddles(q) => q = TopFrontPoleQuad
        /\ SideValuesPosted
        /\ ColumnsSplit
        /\ PolesSplit

=============================================================================
